---- MODULE Spec2Model ----
(***************************************************************************)
(* embassy-executor, arch/cortex_m.rs: the thread-mode Executor (WFE/SEV   *)
(* run loop) and the InterruptExecutor (one-shot start, spawner,           *)
(* on_interrupt, software-pended interrupt line) on one Cortex-M core.     *)
(*                                                                         *)
(* The core runs one context at a time: thread mode (context 0) or the     *)
(* handler of an interrupt line.  A pending, unmasked line that is more    *)
(* urgent than the running context preempts it before its next step.  An   *)
(* application handler more urgent than every executor line runs, from its *)
(* entry to its return, between two steps of the contexts below it.        *)
(***************************************************************************)
EXTENDS Naturals, FiniteSets, Sequences, TLC

VARIABLES
    started,      \* InterruptExecutor.started, per executor      (line 137)
    executor,     \* InterruptExecutor.executor, the core storage (line 138)
    enabled,      \* NVIC: the line is unmasked
    pending,      \* NVIC: the line's pending bit
    active,       \* NVIC: the line's handler is running or preempted
    frame,        \* per context: the call in progress and its position
    issued,       \* per executor: a SendSpawner has been returned
    uninitRead,   \* reads of the storage made while it was not constructed
    startCalls,   \* per executor: calls of start made
    startOk,      \* per executor: calls of start that returned a SendSpawner
    startPanics,  \* per executor: calls of start that panicked
    spawnOk,      \* per executor: calls of spawner that returned a SendSpawner
    spawnPanics,  \* per executor: calls of spawner that panicked
    unserved,     \* per line: pend() calls on its primitive since its handler last began
    calls,        \* API calls made by application code so far
    tpc,          \* Executor::run: position of the thread-mode run loop
    event,        \* the core's event register (SEV sets it, the wait consumes it)
    runq,         \* thread-mode scheduler core: its run queue
    batch,        \* tasks the poll pass in progress took from the run queue
    tstate,       \* per task: unspawned, queued, waiting or done
    initCalls,    \* times run has invoked init
    begun,        \* poll passes the run loop has begun
    passes,       \* poll passes the run loop has completed
    waits         \* entries of the run loop into the wait state

ivars == <<started, executor, enabled, pending, active, frame, issued,
           uninitRead, startCalls, startOk, startPanics, spawnOk, spawnPanics,
           unserved, calls>>
tvars == <<tpc, event, runq, batch, tstate, initCalls, begun, passes, waits>>
vars == <<ivars, tvars>>

(* ---------------------------------------------------------------------- *)
(* Bounds                                                                  *)
(* ---------------------------------------------------------------------- *)
MaxCalls == 3      \* API calls (start, spawner, on_interrupt) application code makes
MaxPends == 2      \* pend() calls on one line between two runs of its handler
MaxPasses == 4     \* poll passes of the thread-mode run loop

(* ---------------------------------------------------------------------- *)
(* The machine: executors, interrupt lines, contexts                       *)
(* ---------------------------------------------------------------------- *)
Execs == {1, 2}              \* the InterruptExecutor statics of the application
Lines == {1, 2}              \* line e: its handler calls on_interrupt of executor e
Thread == 0
Ctx == {Thread} \cup Lines
Tasks == {1, 2}              \* the tasks of the thread-mode executor

IrqOf(e) == e                \* the line whose handler drives executor e
\* faulty variant: the handlers of all lines drive the same executor
HandlerExec_shared(l) == 1
HandlerExec(l) == l          \* the executor the handler of line l drives
Urgency(c) == c              \* static priorities; thread mode is the lowest

Uninit == [init |-> FALSE, pender |-> 0]   \* MaybeUninit::uninit()
Idle == [op |-> "idle", e |-> 0, irq |-> 0, pc |-> "idle"]

ActiveLines == {l \in Lines : active[l]}
Running ==
    IF ActiveLines = {} THEN Thread
    ELSE CHOOSE l \in ActiveLines : \A m \in ActiveLines : Urgency(m) <= Urgency(l)
Preempting == {l \in Lines : pending[l] /\ enabled[l] /\ Urgency(l) > Urgency(Running)}
\* the context c executes its next step: it is running and nothing preempts it
Steps(c) == c = Running /\ Preempting = {}
\* thread mode is at application code, between two calls
AtCode(c) == c = Thread /\ frame[c] = Idle

(* ---------------------------------------------------------------------- *)
(* Values and primitives the code uses                                     *)
(* ---------------------------------------------------------------------- *)
\* faulty variant: a store that does not look at the value it replaces
compare_exchange_blind(v, current, new) == [ok |-> TRUE, val |-> new]

\* AtomicBool::compare_exchange(current, new, ..): the value stored afterwards
\* and whether the exchange succeeded
compare_exchange(v, current, new) ==
    IF v = current THEN [ok |-> TRUE, val |-> new] ELSE [ok |-> FALSE, val |-> v]

\* faulty variant: the flag is not consulted
load_ignored(v) == TRUE

\* AtomicBool::load
load(v) == v

\* InterruptPender(irq.number()) and its InterruptNumber::number
InterruptPender(n) == [line |-> n]
\* faulty variant: the number of the line is not the one the primitive was given
number_fixed(p) == 1
number(p) == p.line

\* raw::Executor::new(Pender(PenderInner::Interrupt(p))): a constructed core
raw_Executor_new(p) == [init |-> TRUE, pender |-> number(p)]

\* faulty variant: the request is dropped
InterruptPender_pend_nothing(p, pend) == pend

\* faulty variant: the pending bit is toggled instead of set
InterruptPender_pend_toggle(p, pend) == [pend EXCEPT ![number(p)] = ~@]

\* faulty variant: the request reaches every line
InterruptPender_pend_all(p, pend) == [l \in DOMAIN pend |-> TRUE]

\* InterruptPender::pend: NVIC request / NVIC::pend sets the pending bit of
\* the line the primitive carries
InterruptPender_pend(p, pend) == [pend EXCEPT ![number(p)] = TRUE]

\* NVIC::unmask(irq)
NVIC_unmask(irq, en) == [en EXCEPT ![irq] = TRUE]

\* poll passes of executor e in progress
PollsInProgress(e) ==
    {c \in Ctx : frame[c].op = "on_interrupt" /\ frame[c].e = e /\ frame[c].pc = "polling"}

(* ---------------------------------------------------------------------- *)
(* Initial state: InterruptExecutor::new() statics, NVIC after reset       *)
(* ---------------------------------------------------------------------- *)
InterruptExecutor_new == [started |-> FALSE, executor |-> Uninit]

InitInterrupt ==
    /\ started = [e \in Execs |-> InterruptExecutor_new.started]
    /\ executor = [e \in Execs |-> InterruptExecutor_new.executor]
    /\ enabled = [l \in Lines |-> FALSE]
    /\ pending = [l \in Lines |-> FALSE]
    /\ active = [l \in Lines |-> FALSE]
    /\ frame = [c \in Ctx |-> Idle]
    /\ issued = [e \in Execs |-> FALSE]
    /\ uninitRead = {}
    /\ startCalls = [e \in Execs |-> 0]
    /\ startOk = [e \in Execs |-> 0]
    /\ startPanics = [e \in Execs |-> 0]
    /\ spawnOk = [e \in Execs |-> 0]
    /\ spawnPanics = [e \in Execs |-> 0]
    /\ unserved = [l \in Lines |-> 0]
    /\ calls = 0

\* Executor::new(), before run is called
InitThread ==
    /\ tpc = "new"
    /\ runq = {}
    /\ batch = {}
    /\ tstate = [t \in Tasks |-> "unspawned"]
    /\ initCalls = 0
    /\ begun = 0
    /\ passes = 0
    /\ waits = 0

Init == InitInterrupt /\ InitThread /\ event = FALSE

\* the event register holds whatever the code that ran before run left in it
InitRun == InitInterrupt /\ InitThread /\ event \in BOOLEAN

\* The first start of an executor names the line whose handler drives it; a
\* further call, which is a contract violation already, may name any line.
MayStart(e, irq) == calls < MaxCalls /\ (started[e] \/ irq = IrqOf(e))

(* ---------------------------------------------------------------------- *)
(* InterruptExecutor::start, called in thread mode                         *)
(* ---------------------------------------------------------------------- *)
Call_start(e, irq) ==
    /\ Steps(Thread) /\ AtCode(Thread) /\ MayStart(e, irq)
    /\ frame' = [frame EXCEPT ![Thread] = [op |-> "start", e |-> e, irq |-> irq, pc |-> "cas"]]
    /\ startCalls' = [startCalls EXCEPT ![e] = @ + 1]
    /\ calls' = calls + 1
    /\ UNCHANGED <<started, executor, enabled, pending, active, issued, uninitRead,
                   startOk, startPanics, spawnOk, spawnPanics, unserved, tvars>>

\* faulty variant: the line is unmasked as soon as the flag is claimed, before the
\* core is constructed
Start_cas_unmask_first(c) ==
    /\ Steps(c) /\ frame[c].op = "start" /\ frame[c].pc = "cas"
    /\ LET e == frame[c].e
           x == compare_exchange(started[e], FALSE, TRUE)
       IN /\ started' = [started EXCEPT ![e] = x.val]
          /\ IF x.ok
             THEN /\ frame' = [frame EXCEPT ![c].pc = "write"]
                  /\ enabled' = NVIC_unmask(frame[c].irq, enabled)
                  /\ UNCHANGED startPanics
             ELSE /\ frame' = [frame EXCEPT ![c] = Idle]
                  /\ startPanics' = [startPanics EXCEPT ![e] = @ + 1]
                  /\ UNCHANGED enabled
    /\ UNCHANGED <<executor, pending, active, issued, uninitRead, startCalls,
                   startOk, spawnOk, spawnPanics, unserved, calls, tvars>>

\* faulty variant: a call that finds the flag set unmasks its line before it panics
Start_cas_dup_unmasks(c) ==
    /\ Steps(c) /\ frame[c].op = "start" /\ frame[c].pc = "cas"
    /\ LET e == frame[c].e
           x == compare_exchange(started[e], FALSE, TRUE)
       IN /\ started' = [started EXCEPT ![e] = x.val]
          /\ IF x.ok
             THEN /\ frame' = [frame EXCEPT ![c].pc = "write"]
                  /\ UNCHANGED <<startPanics, enabled>>
             ELSE /\ frame' = [frame EXCEPT ![c] = Idle]
                  /\ enabled' = NVIC_unmask(frame[c].irq, enabled)
                  /\ startPanics' = [startPanics EXCEPT ![e] = @ + 1]
    /\ UNCHANGED <<executor, pending, active, issued, uninitRead, startCalls,
                   startOk, spawnOk, spawnPanics, unserved, calls, tvars>>

\* faulty variant: a call that finds the flag set goes on instead of panicking
Start_cas_no_panic(c) ==
    /\ Steps(c) /\ frame[c].op = "start" /\ frame[c].pc = "cas"
    /\ started' = [started EXCEPT ![frame[c].e] =
                       compare_exchange(started[frame[c].e], FALSE, TRUE).val]
    /\ frame' = [frame EXCEPT ![c].pc = "write"]
    /\ UNCHANGED <<executor, enabled, pending, active, issued, uninitRead, startCalls,
                   startOk, startPanics, spawnOk, spawnPanics, unserved, calls, tvars>>

\* lines 187-193: claim the started flag or panic.  What follows a panic is
\* the panic handler's business: the context may stay there for ever, or go
\* on, as under a harness that catches the panic; the model lets it go on.
Start_cas(c) ==
    /\ Steps(c) /\ frame[c].op = "start" /\ frame[c].pc = "cas"
    /\ LET e == frame[c].e
           x == compare_exchange(started[e], FALSE, TRUE)
       IN /\ started' = [started EXCEPT ![e] = x.val]
          /\ IF x.ok
             THEN /\ frame' = [frame EXCEPT ![c].pc = "write"]
                  /\ UNCHANGED startPanics
             ELSE /\ frame' = [frame EXCEPT ![c] = Idle]
                  /\ startPanics' = [startPanics EXCEPT ![e] = @ + 1]
    /\ UNCHANGED <<executor, enabled, pending, active, issued, uninitRead, startCalls,
                   startOk, spawnOk, spawnPanics, unserved, calls, tvars>>

\* faulty variant: the line is unmasked where the core should be constructed
Start_write_unmask_instead(c) ==
    /\ Steps(c) /\ frame[c].op = "start" /\ frame[c].pc = "write"
    /\ enabled' = NVIC_unmask(frame[c].irq, enabled)
    /\ frame' = [frame EXCEPT ![c].pc = "unmask"]
    /\ UNCHANGED <<started, executor, pending, active, issued, uninitRead, startCalls,
                   startOk, startPanics, spawnOk, spawnPanics, unserved, calls, tvars>>

\* lines 195-201: construct the core in the reserved storage
Start_write(c) ==
    /\ Steps(c) /\ frame[c].op = "start" /\ frame[c].pc = "write"
    /\ executor' = [executor EXCEPT ![frame[c].e] =
                        raw_Executor_new(InterruptPender(frame[c].irq))]
    /\ frame' = [frame EXCEPT ![c].pc = "unmask"]
    /\ UNCHANGED <<started, enabled, pending, active, issued, uninitRead, startCalls,
                   startOk, startPanics, spawnOk, spawnPanics, unserved, calls, tvars>>

\* lines 203-205: unmask the line
Start_unmask(c) ==
    /\ Steps(c) /\ frame[c].op = "start" /\ frame[c].pc = "unmask"
    /\ enabled' = NVIC_unmask(frame[c].irq, enabled)
    /\ frame' = [frame EXCEPT ![c].pc = "ret"]
    /\ UNCHANGED <<started, executor, pending, active, issued, uninitRead, startCalls,
                   startOk, startPanics, spawnOk, spawnPanics, unserved, calls, tvars>>

\* line 207: return executor.spawner().make_send()
Start_ret(c) ==
    /\ Steps(c) /\ frame[c].op = "start" /\ frame[c].pc = "ret"
    /\ frame' = [frame EXCEPT ![c] = Idle]
    /\ startOk' = [startOk EXCEPT ![frame[c].e] = @ + 1]
    /\ issued' = [issued EXCEPT ![frame[c].e] = TRUE]
    /\ UNCHANGED <<started, executor, enabled, pending, active, uninitRead, startCalls,
                   startPanics, spawnOk, spawnPanics, unserved, calls, tvars>>

(* ---------------------------------------------------------------------- *)
(* InterruptExecutor::spawner, called in thread mode                       *)
(* ---------------------------------------------------------------------- *)
Call_spawner(e) ==
    /\ Steps(Thread) /\ AtCode(Thread)
    /\ calls < MaxCalls
    /\ frame' = [frame EXCEPT ![Thread] = [op |-> "spawner", e |-> e, irq |-> 0, pc |-> "load"]]
    /\ calls' = calls + 1
    /\ UNCHANGED <<started, executor, enabled, pending, active, issued, uninitRead,
                   startCalls, startOk, startPanics, spawnOk, spawnPanics, unserved, tvars>>

\* lines 218-220: panic unless the started flag reads as set
Spawner_load(c) ==
    /\ Steps(c) /\ frame[c].op = "spawner" /\ frame[c].pc = "load"
    /\ LET e == frame[c].e
       IN IF ~load(started[e])
          THEN /\ frame' = [frame EXCEPT ![c] = Idle]
               /\ spawnPanics' = [spawnPanics EXCEPT ![e] = @ + 1]
          ELSE /\ frame' = [frame EXCEPT ![c].pc = "ref"]
               /\ UNCHANGED spawnPanics
    /\ UNCHANGED <<started, executor, enabled, pending, active, issued, uninitRead,
                   startCalls, startOk, startPanics, spawnOk, unserved, calls, tvars>>

\* lines 221-222: assume_init_ref on the storage and return the handle.  On
\* storage that is not constructed this is undefined behaviour: the call may
\* return a handle onto the unconstructed storage, or fault.
Spawner_ref(c) ==
    /\ Steps(c) /\ frame[c].op = "spawner" /\ frame[c].pc = "ref"
    /\ frame' = [frame EXCEPT ![c] = Idle]
    /\ LET e == frame[c].e
       IN IF executor[e].init
          THEN /\ spawnOk' = [spawnOk EXCEPT ![e] = @ + 1]
               /\ issued' = [issued EXCEPT ![e] = TRUE]
               /\ UNCHANGED uninitRead
          ELSE /\ uninitRead' = uninitRead \cup {<<"spawner", e>>}
               /\ \/ /\ spawnOk' = [spawnOk EXCEPT ![e] = @ + 1]
                     /\ issued' = [issued EXCEPT ![e] = TRUE]
                  \/ UNCHANGED <<spawnOk, issued>>
    /\ UNCHANGED <<started, executor, enabled, pending, active, startCalls, startOk,
                   startPanics, spawnPanics, unserved, calls, tvars>>

(* ---------------------------------------------------------------------- *)
(* InterruptExecutor::on_interrupt                                         *)
(* ---------------------------------------------------------------------- *)
\* faulty variant: on_interrupt consults the started flag and gives up when it is
\* clear
OnInterrupt_poll_checked(c) ==
    /\ Steps(c) /\ frame[c].op = "on_interrupt" /\ frame[c].pc = "ref"
    /\ LET e == frame[c].e
       IN IF ~started[e]
          THEN /\ frame' = [frame EXCEPT ![c] = Idle]
               /\ active' = [l \in Lines |-> IF l = c THEN FALSE ELSE active[l]]
               /\ UNCHANGED uninitRead
          ELSE /\ frame' = [frame EXCEPT ![c].pc = "polling"]
               /\ uninitRead' = IF executor[e].init THEN uninitRead
                                 ELSE uninitRead \cup {<<"on_interrupt", e>>}
               /\ UNCHANGED active
    /\ UNCHANGED <<started, executor, enabled, pending, issued, startCalls,
                   startOk, startPanics, spawnOk, spawnPanics, unserved, calls, tvars>>

\* lines 160-161: assume_init_ref on the storage, with no check of the
\* started flag, and executor.poll() begins a poll pass.  On storage that is
\* not constructed this is undefined behaviour: the call may poll whatever
\* the storage holds, or fault.
OnInterrupt_poll(c) ==
    /\ Steps(c) /\ frame[c].op = "on_interrupt" /\ frame[c].pc = "ref"
    /\ LET e == frame[c].e
       IN IF executor[e].init
          THEN /\ frame' = [frame EXCEPT ![c].pc = "polling"]
               /\ UNCHANGED uninitRead
          ELSE /\ uninitRead' = uninitRead \cup {<<"on_interrupt", e>>}
               /\ \E out \in {"polling", "fault"} : frame' = [frame EXCEPT ![c].pc = out]
    /\ UNCHANGED <<started, executor, enabled, pending, active, issued, startCalls,
                   startOk, startPanics, spawnOk, spawnPanics, unserved, calls, tvars>>

\* faulty variant: the handler clears the pending bit of its line when it returns
OnInterrupt_ret_unpend(c) ==
    /\ Steps(c) /\ frame[c].op = "on_interrupt" /\ frame[c].pc \in {"polling", "fault"}
    /\ frame' = [frame EXCEPT ![c] = Idle]
    /\ active' = [l \in Lines |-> IF l = c THEN FALSE ELSE active[l]]
    /\ pending' = [l \in Lines |-> IF l = c THEN FALSE ELSE pending[l]]
    /\ UNCHANGED <<started, executor, enabled, issued, uninitRead, startCalls,
                   startOk, startPanics, spawnOk, spawnPanics, unserved, calls, tvars>>

\* lines 161-162: the poll pass ends and on_interrupt returns; in the handler
\* of the line, whose body is this call, the handler returns with it
OnInterrupt_ret(c) ==
    /\ Steps(c) /\ frame[c].op = "on_interrupt" /\ frame[c].pc \in {"polling", "fault"}
    /\ frame' = [frame EXCEPT ![c] = Idle]
    /\ active' = [l \in Lines |-> IF l = c THEN FALSE ELSE active[l]]
    /\ UNCHANGED <<started, executor, enabled, pending, issued, uninitRead, startCalls,
                   startOk, startPanics, spawnOk, spawnPanics, unserved, calls, tvars>>

\* thread-mode code calls on_interrupt itself: a violation of its safety
\* contract ("from the interrupt handler, and from nowhere else")
Call_on_interrupt(e) ==
    /\ Steps(Thread) /\ AtCode(Thread)
    /\ calls < MaxCalls
    /\ frame' = [frame EXCEPT ![Thread] = [op |-> "on_interrupt", e |-> e, irq |-> 0, pc |-> "ref"]]
    /\ calls' = calls + 1
    /\ UNCHANGED <<started, executor, enabled, pending, active, issued, uninitRead,
                   startCalls, startOk, startPanics, spawnOk, spawnPanics, unserved, tvars>>

(* ---------------------------------------------------------------------- *)
(* The interrupt controller                                                *)
(* ---------------------------------------------------------------------- *)
\* the most urgent pending, unmasked line preempts the running context; the
\* handler of line l is the application's `EXECUTOR_l.on_interrupt()`
ExceptionEntry(l) ==
    /\ l \in Preempting
    /\ \A m \in Preempting : Urgency(m) <= Urgency(l)
    /\ pending' = [pending EXCEPT ![l] = FALSE]
    /\ active' = [active EXCEPT ![l] = TRUE]
    /\ unserved' = [unserved EXCEPT ![l] = 0]
    /\ frame' = [frame EXCEPT ![l] =
                    [op |-> "on_interrupt", e |-> HandlerExec(l), irq |-> 0, pc |-> "ref"]]
    /\ UNCHANGED <<started, executor, enabled, issued, uninitRead, startCalls, startOk,
                   startPanics, spawnOk, spawnPanics, calls, tvars>>

\* a wake of a task of executor e: the core invokes its wake primitive.  The
\* waker comes from a handle of the executor.  The code that wakes is
\* thread-mode code, a task inside a poll pass, or an application handler
\* more urgent than the running context.
Wake(e) ==
    /\ issued[e] /\ executor[e].init
    /\ LET p == InterruptPender(executor[e].pender)
       IN /\ unserved[number(p)] < MaxPends
          /\ pending' = InterruptPender_pend(p, pending)
          /\ unserved' = [unserved EXCEPT ![number(p)] = @ + 1]
    /\ UNCHANGED <<started, executor, enabled, active, frame, issued, uninitRead,
                   startCalls, startOk, startPanics, spawnOk, spawnPanics, calls, tvars>>

\* an interrupt request from outside the executors: a hardware event on the
\* line, or other software pending it.  A request that arrives while the line
\* is masked or outranked stays pending and is taken once the line is
\* unmasked and outranks the running context: the same entry as that of a
\* request that arrives then, which is the one modelled.
EnvPend(l) ==
    /\ ~pending[l] /\ enabled[l] /\ Urgency(l) > Urgency(Running)
    /\ pending' = [pending EXCEPT ![l] = TRUE]
    /\ UNCHANGED <<started, executor, enabled, active, frame, issued, uninitRead,
                   startCalls, startOk, startPanics, spawnOk, spawnPanics, unserved,
                   calls, tvars>>

(* ---------------------------------------------------------------------- *)
(* Calls from an application handler more urgent than every executor line: *)
(* nothing preempts it, so the call runs from its first line to its last   *)
(* between two steps of the contexts below.                                *)
(* ---------------------------------------------------------------------- *)
\* start, lines 186-208
Isr_start(e, irq) ==
    /\ MayStart(e, irq)
    /\ calls' = calls + 1
    /\ startCalls' = [startCalls EXCEPT ![e] = @ + 1]
    /\ LET x == compare_exchange(started[e], FALSE, TRUE)
       IN /\ started' = [started EXCEPT ![e] = x.val]
          /\ IF x.ok
             THEN /\ executor' = [executor EXCEPT ![e] =
                                      raw_Executor_new(InterruptPender(irq))]
                  /\ enabled' = NVIC_unmask(irq, enabled)
                  /\ startOk' = [startOk EXCEPT ![e] = @ + 1]
                  /\ issued' = [issued EXCEPT ![e] = TRUE]
                  /\ UNCHANGED startPanics
             ELSE /\ startPanics' = [startPanics EXCEPT ![e] = @ + 1]
                  /\ UNCHANGED <<executor, enabled, startOk, issued>>
    /\ UNCHANGED <<pending, active, frame, uninitRead, spawnOk, spawnPanics, unserved,
                   tvars>>

\* spawner, lines 217-223
Isr_spawner(e) ==
    /\ calls < MaxCalls
    /\ calls' = calls + 1
    /\ IF ~load(started[e])
       THEN /\ spawnPanics' = [spawnPanics EXCEPT ![e] = @ + 1]
            /\ UNCHANGED <<spawnOk, issued, uninitRead>>
       ELSE /\ UNCHANGED spawnPanics
            /\ IF executor[e].init
               THEN /\ spawnOk' = [spawnOk EXCEPT ![e] = @ + 1]
                    /\ issued' = [issued EXCEPT ![e] = TRUE]
                    /\ UNCHANGED uninitRead
               ELSE /\ uninitRead' = uninitRead \cup {<<"spawner", e>>}
                    /\ \/ /\ spawnOk' = [spawnOk EXCEPT ![e] = @ + 1]
                          /\ issued' = [issued EXCEPT ![e] = TRUE]
                       \/ UNCHANGED <<spawnOk, issued>>
    /\ UNCHANGED <<started, executor, enabled, pending, active, frame, startCalls,
                   startOk, startPanics, unserved, tvars>>

Next ==
    \/ \E e \in Execs, irq \in Lines : Call_start(e, irq)
    \/ \E c \in Ctx : Start_cas(c)
    \/ \E c \in Ctx : Start_write(c)
    \/ \E c \in Ctx : Start_unmask(c)
    \/ \E c \in Ctx : Start_ret(c)
    \/ \E e \in Execs : Call_spawner(e)
    \/ \E c \in Ctx : Spawner_load(c)
    \/ \E c \in Ctx : Spawner_ref(c)
    \/ \E c \in Ctx : OnInterrupt_poll(c)
    \/ \E c \in Ctx : OnInterrupt_ret(c)
    \/ \E l \in Lines : ExceptionEntry(l)
    \/ \E e \in Execs : Wake(e)
    \/ \E l \in Lines : EnvPend(l)
    \/ \E e \in Execs, irq \in Lines : Isr_start(e, irq)
    \/ \E e \in Execs : Isr_spawner(e)

Spec == Init /\ [][Next]_vars

\* Handlers make progress: a handler that can again and again take its next
\* step does take it, and a line that is again and again the most urgent
\* request is entered; more urgent lines do not keep the core for ever.
HandlersProgress ==
    \A l \in Lines :
        /\ SF_vars(ExceptionEntry(l))
        /\ SF_vars(OnInterrupt_poll(l))
        /\ SF_vars(OnInterrupt_ret(l))

SpecFair == Init /\ [][Next]_vars /\ HandlersProgress

\* the same program with thread-mode code that also calls on_interrupt itself
NextUnchecked ==
    \/ Next
    \/ \E e \in Execs : Call_on_interrupt(e)

SpecUnchecked == Init /\ [][NextUnchecked]_vars

(* ---------------------------------------------------------------------- *)
(* The thread-mode Executor                                                *)
(* ---------------------------------------------------------------------- *)
\* faulty variant: no event is signalled
ThreadPender_pend_nothing(ev) == ev

\* ThreadPender::pend: SEV sets the event register
ThreadPender_pend(ev) == TRUE

\* the scheduler core enqueues a task and invokes the wake primitive when
\* the run queue was empty
Enqueue(st, t) ==
    [runq |-> st.runq \cup {t},
     event |-> IF st.runq = {} THEN ThreadPender_pend(st.event) ELSE st.event,
     tstate |-> [st.tstate EXCEPT ![t] = "queued"]]

\* a wake of task t: nothing for a task that is queued already, not spawned
\* or finished
WakeTask(st, t) == IF st.tstate[t] = "waiting" THEN Enqueue(st, t) ELSE st

CoreState == [runq |-> runq, event |-> event, tstate |-> tstate]

\* faulty variant: the wait is entered again without a poll pass
LoopBack_to_wait == "polled"

\* faulty variant: the loop is left after the wait
LoopBack_break == "returned"

\* where the loop of run goes after the wait returns: back to its top
LoopBack == "poll"

\* line 66: run is called
Run_enter ==
    /\ tpc = "new"
    /\ tpc' = "init"
    /\ UNCHANGED <<event, runq, batch, tstate, initCalls, begun, passes, waits, ivars>>

\* line 67: init(self.inner.spawner()); init spawns the initial tasks
Run_init(S) ==
    /\ tpc = "init" /\ initCalls = 0
    /\ initCalls' = initCalls + 1
    /\ LET st == IF S = {} THEN CoreState
                 ELSE LET a == CHOOSE t \in S : \A u \in S : t <= u
                          s1 == Enqueue(CoreState, a)
                      IN IF S = {a} THEN s1
                         ELSE Enqueue(s1, CHOOSE t \in S \ {a} : TRUE)
       IN /\ runq' = st.runq
          /\ event' = st.event
          /\ tstate' = st.tstate
    /\ UNCHANGED <<tpc, batch, begun, passes, waits, ivars>>

\* line 67-69: init returns and the loop is entered
Run_loop ==
    /\ tpc = "init" /\ initCalls = 1
    /\ tpc' = "poll"
    /\ UNCHANGED <<event, runq, batch, tstate, initCalls, begun, passes, waits, ivars>>

\* line 71: self.inner.poll() takes the whole run queue
Poll_begin ==
    /\ tpc = "poll" /\ begun < MaxPasses
    /\ tpc' = "polling"
    /\ batch' = runq
    /\ runq' = {}
    /\ begun' = begun + 1
    /\ UNCHANGED <<event, tstate, initCalls, passes, waits, ivars>>

\* the pass polls one of the tasks it took: the task runs to its next
\* suspension point or finishes, and may wake a task w (itself included)
Poll_task(t, fin, w) ==
    /\ tpc = "polling" /\ t \in batch
    /\ batch' = batch \ {t}
    /\ LET ran == [CoreState EXCEPT !.tstate[t] = "waiting"]
           woke == IF w \in Tasks THEN WakeTask(ran, w) ELSE ran
           st == IF fin /\ woke.tstate[t] = "waiting"
                 THEN [woke EXCEPT !.tstate[t] = "done"] ELSE woke
       IN /\ runq' = st.runq
          /\ event' = st.event
          /\ tstate' = st.tstate
    /\ UNCHANGED <<tpc, initCalls, begun, passes, waits, ivars>>

\* line 71: the poll pass is over
Poll_end ==
    /\ tpc = "polling" /\ batch = {}
    /\ tpc' = "polled"
    /\ passes' = passes + 1
    /\ UNCHANGED <<event, runq, batch, tstate, initCalls, begun, waits, ivars>>

\* line 72: the wait state is entered
Wait_enter ==
    /\ tpc = "polled"
    /\ tpc' = "wait"
    /\ waits' = waits + 1
    /\ UNCHANGED <<event, runq, batch, tstate, initCalls, begun, passes, ivars>>

\* faulty variant: the wait returns without consuming the event
Wait_return_keeps_event ==
    /\ tpc = "wait" /\ event
    /\ tpc' = LoopBack
    /\ UNCHANGED <<event, runq, batch, tstate, initCalls, begun, passes, waits, ivars>>

\* line 72-74: the wait returns when the event register is set, consuming
\* it, and the loop goes round
Wait_return ==
    /\ tpc = "wait" /\ event
    /\ event' = FALSE
    /\ tpc' = LoopBack
    /\ UNCHANGED <<runq, batch, tstate, initCalls, begun, passes, waits, ivars>>

\* an interrupt handler wakes task t; it runs between two steps of thread mode
IsrWake(t) ==
    /\ tstate[t] = "waiting"
    /\ LET st == WakeTask(CoreState, t)
       IN /\ runq' = st.runq
          /\ event' = st.event
          /\ tstate' = st.tstate
    /\ UNCHANGED <<tpc, batch, initCalls, begun, passes, waits, ivars>>

\* an event that is no wake of a task: another SEV, an interrupt
EnvEvent ==
    /\ ~event
    /\ event' = TRUE
    /\ UNCHANGED <<tpc, runq, batch, tstate, initCalls, begun, passes, waits, ivars>>

NextThread ==
    \/ Run_enter
    \/ \E S \in SUBSET Tasks : Run_init(S)
    \/ Run_loop
    \/ Poll_begin
    \/ \E t \in Tasks, fin \in BOOLEAN, w \in Tasks \cup {0} : Poll_task(t, fin, w)
    \/ Poll_end
    \/ Wait_enter
    \/ Wait_return
    \/ \E t \in Tasks : IsrWake(t)
    \/ EnvEvent

SpecThread == InitRun /\ [][NextThread]_vars

(* ---------------------------------------------------------------------- *)
(* One run of the thread-mode Executor: init spawns one task alone, the    *)
(* task yields on its first poll with a wake registered, an interrupt      *)
(* fires the wake, and the task finishes on its second poll.               *)
(* ---------------------------------------------------------------------- *)
Scenario_init(t) == Run_init({t})

\* the first poll of the task is in the first pass, which takes what init
\* spawned; a later poll of it is its second
Scenario_poll(t) == Poll_task(t, begun > 1, 0)

\* the interrupt that fires the registered wake
Scenario_wake(t) == IsrWake(t)

\* other events arrive early only: each costs the loop one more pass
Scenario_event == begun + 2 < MaxPasses /\ EnvEvent

NextScenario ==
    \/ Run_enter
    \/ \E t \in Tasks : Scenario_init(t)
    \/ Run_loop
    \/ Poll_begin
    \/ \E t \in Tasks : Scenario_poll(t)
    \/ Poll_end
    \/ Wait_enter
    \/ Wait_return
    \/ \E t \in Tasks : Scenario_wake(t)
    \/ Scenario_event

\* thread mode executes run step by step, and the registered wake fires
ScenarioProgress ==
    /\ WF_vars(Run_enter) /\ WF_vars(Run_loop)
    /\ WF_vars(Poll_begin) /\ WF_vars(Poll_end)
    /\ WF_vars(Wait_enter) /\ WF_vars(Wait_return)
    /\ \A t \in Tasks : /\ WF_vars(Scenario_init(t))
                        /\ WF_vars(Scenario_poll(t))
                        /\ WF_vars(Scenario_wake(t))

SpecScenario == InitRun /\ [][NextScenario]_vars /\ ScenarioProgress

(* ====================================================================== *)
(* Properties                                                              *)
(* ====================================================================== *)
StartsInProgress(e) == {c \in Ctx : frame[c].op = "start" /\ frame[c].e = e}
Claimants(e) == {c \in StartsInProgress(e) : frame[c].pc # "cas"}

\* C1: start succeeds exactly once per executor.  Of the calls of start on
\* one executor, whatever their interleaving, exactly one wins the exchange
\* (it is past the exchange, or has returned a SendSpawner), every other call
\* that has executed the exchange has panicked, and once no call is in
\* progress one call has returned and the others, N - 1 of N, have panicked.
C1_StartSucceedsOnce ==
    \A e \in Execs :
        /\ startOk[e] + Cardinality(Claimants(e)) = (IF started[e] THEN 1 ELSE 0)
        /\ startCalls[e] = startOk[e] + startPanics[e] + Cardinality(StartsInProgress(e))
        /\ (startCalls[e] >= 1 /\ StartsInProgress(e) = {})
              => (startOk[e] = 1 /\ startPanics[e] = startCalls[e] - 1)

\* three callers of start on one executor: one returned, two panicked
C1_Witness ==
    \E e \in Execs :
        /\ startCalls[e] = 3 /\ StartsInProgress(e) = {}
        /\ startOk[e] = 1 /\ startPanics[e] = 2

\* C2 (as stated): no poll pass of an executor's core begins before the
\* start call that constructs the core has completed (returned).
C2_NoPollBeforeStartReturns ==
    \A e \in Execs : PollsInProgress(e) # {} => startOk[e] >= 1

\* C2 (amended): no call of on_interrupt by the handler of the line, and so
\* no poll pass, begins before start has constructed the core and unmasked
\* the line; it can begin between the unmask and the return of start.
C2_NoPollBeforeUnmask ==
    \A c \in Ctx :
        frame[c].op = "on_interrupt" =>
            LET e == frame[c].e
            IN /\ executor[e].init
               /\ \/ startOk[e] >= 1
                  \/ \E d \in Ctx : /\ frame[d].op = "start" /\ frame[d].e = e
                                    /\ frame[d].pc = "ret"

\* a poll pass in progress while the start that constructed the core has
\* not returned yet
C2_Witness ==
    \E e \in Execs : PollsInProgress(e) # {} /\ startOk[e] = 0 /\ executor[e].init

\* C3: a call of spawner made before start has completed never returns a
\* handle: whenever spawner has returned a SendSpawner of an executor, a
\* start of that executor has returned.
C3_SpawnerBeforeStartAborts ==
    \A e \in Execs : spawnOk[e] > 0 => startOk[e] > 0

\* C4: on an executor on which start has never been called, spawner never
\* returns a handle and never gets to the read of the core storage: every
\* call of it ends in the panic.
C4_SpawnerOnNeverStartedPanics ==
    \A e \in Execs :
        startCalls[e] = 0 =>
            /\ spawnOk[e] = 0
            /\ <<"spawner", e>> \notin uninitRead
            /\ \A c \in Ctx : ~(frame[c].op = "spawner" /\ frame[c].e = e
                                /\ frame[c].pc = "ref")

\* spawner has panicked twice on an executor that was never started
C4_Witness ==
    \E e \in Execs : startCalls[e] = 0 /\ spawnPanics[e] >= 2

C6_NoMissedWakeup ==
    (tpc \in {"polled", "wait"} /\ runq # {}) => event

\* a task was woken after the pass took the run queue, before the wait is
\* entered
C6_Witness == tpc = "polled" /\ runq # {} /\ event /\ waits >= 1

\* C7: run invokes init exactly once, before the first poll pass, and then
\* alternates one poll pass and one entry into the wait state.
C7_InitOnceThenAlternate ==
    /\ initCalls <= 1
    /\ tpc \in {"new", "init"} => (begun = 0 /\ passes = 0 /\ waits = 0)
    /\ tpc \notin {"new", "init"} => initCalls = 1
    /\ tpc \in {"poll", "wait"} => (begun = passes /\ passes = waits)
    /\ tpc = "polling" => (begun = passes + 1 /\ passes = waits)
    /\ tpc = "polled" => (begun = passes /\ passes = waits + 1)

\* the loop is in its third pass after two waits
C7_Witness == tpc = "polling" /\ waits = 2 /\ begun = 3 /\ initCalls = 1

\* C8: run never returns: once entered it is in init, in a poll pass or in
\* the wait state.
C8_RunNeverReturns ==
    /\ tpc \in {"new", "init", "poll", "polling", "polled", "wait"}
    /\ (initCalls > 0 \/ begun > 0 \/ waits > 0) => tpc # "new"

\* the loop has gone round twice and a task has completed
C8_Witness == tpc = "poll" /\ waits = 2 /\ \E t \in Tasks : tstate[t] = "done"

\* C9: pend() on a Targeted primitive coalesces.  A further pend() on a line
\* whose pending bit is set leaves the interrupt controller as it is, and the
\* one handler invocation that follows serves every pend() made before it.
C9_PendCoalesces ==
    [][\A l \in Lines :
          /\ unserved'[l] > unserved[l]
                => /\ pending'[l] /\ enabled' = enabled /\ active' = active
                   /\ pending[l] => pending' = pending
          /\ (active'[l] /\ ~active[l])
                => (pending[l] /\ ~pending'[l] /\ unserved'[l] = 0)]_vars

\* two pend() calls on an unmasked line before its handler has run
C9_Witness == \E l \in Lines : unserved[l] = 2 /\ pending[l] /\ enabled[l]

\* C10: pend() on the primitive of line a changes the pending bit of line a
\* and nothing else: not the flag, the storage, the mask bit or the pending
\* bit of an executor on another line, and it begins no poll pass; a handler
\* begins only on its own pending bit.
C10_PendTouchesOwnLineOnly ==
    [][\A a \in Lines :
          /\ unserved'[a] > unserved[a]
                => /\ \A b \in Lines \ {a} : pending'[b] = pending[b]
                   /\ enabled' = enabled /\ active' = active
                   /\ started' = started /\ executor' = executor
                   /\ frame' = frame
          /\ (active'[a] /\ ~active[a]) => pending[a]]_vars

\* two executors started on distinct lines, a pend() made on the first only
C10_Witness ==
    /\ startOk[1] = 1 /\ startOk[2] = 1
    /\ executor[1].pender # executor[2].pender
    /\ unserved[executor[1].pender] >= 1 /\ pending[executor[1].pender]
    /\ unserved[executor[2].pender] = 0 /\ ~pending[executor[2].pender]
    /\ PollsInProgress(2) = {}

\* C11: poll passes of one scheduler core are strictly sequential.  For an
\* interrupt-mode executor driven by the handler of its line, at most one
\* poll pass is in progress at any time, it runs in the handler of that line,
\* and one instance of the handler exists exactly while the line is active;
\* a pend() made during the pass leaves the line pending and starts no
\* second pass.
C11_PollPassesSequential ==
    /\ \A e \in Execs :
          /\ Cardinality(PollsInProgress(e)) <= 1
          /\ PollsInProgress(e) \subseteq {IrqOf(e)}
    /\ \A l \in Lines : active[l] <=> frame[l].op = "on_interrupt"

\* a pend() on the line was made during a poll pass of its executor: the
\* line is pending, its handler has not been entered again
C11_Witness ==
    \E e \in Execs :
        /\ PollsInProgress(e) = {IrqOf(e)}
        /\ pending[IrqOf(e)] /\ unserved[IrqOf(e)] >= 1

\* C12: in every reachable state, an executor whose started flag reads as
\* set has its scheduler core constructed in the reserved storage.
C12_StartedImpliesConstructed ==
    \A e \in Execs : load(started[e]) => executor[e].init

\* C13: start constructs the core before it unmasks the line.  Whenever a
\* line is unmasked, the executor its handler drives is constructed with a
\* wake primitive bound to that line; a start call past its unmask has its
\* core constructed; and on_interrupt, called by the handler, has never read
\* storage that was not constructed.
C13_ConstructBeforeUnmask ==
    /\ \A l \in Lines :
          enabled[l] => /\ executor[HandlerExec(l)].init
                        /\ executor[HandlerExec(l)].pender = l
    /\ \A c \in Ctx :
          (frame[c].op = "start" /\ frame[c].pc = "ret")
              => (executor[frame[c].e].init /\ enabled[frame[c].irq])
    /\ \A e \in Execs : <<"on_interrupt", e>> \notin uninitRead

\* the handler fired right after the unmask: thread mode is still in start,
\* at its return, while the handler polls the constructed core
C13_Witness ==
    /\ frame[Thread].op = "start" /\ frame[Thread].pc = "ret"
    /\ PollsInProgress(frame[Thread].e) # {}
    /\ executor[frame[Thread].e].init

\* C14: Started is terminal and the core storage is written exactly once.  No
\* step clears a set started flag; no step changes storage that is
\* constructed; the storage changes only under a claimed flag; and the write
\* of start is executed only on storage that is not constructed yet, which it
\* constructs, so it is executed at most once.
C14_StartedTerminalWrittenOnce ==
    [][\A e \in Execs :
          /\ started[e] => started'[e]
          /\ executor[e].init => executor'[e] = executor[e]
          /\ executor'[e] # executor[e] => (started'[e] /\ ~executor[e].init)
          /\ \A c \in Ctx :
                (/\ frame[c].op = "start" /\ frame[c].e = e
                 /\ frame[c].pc = "write" /\ frame'[c] # frame[c])
                    => (~executor[e].init /\ executor'[e].init)]_vars

\* after the one successful start: a second start has panicked, spawner has
\* returned a handle and a poll pass is in progress, flag and core unchanged
C14_Witness ==
    \E e \in Execs :
        /\ startOk[e] = 1 /\ startPanics[e] >= 1 /\ spawnOk[e] >= 1
        /\ PollsInProgress(e) # {}
        /\ started[e] /\ executor[e] = raw_Executor_new(InterruptPender(IrqOf(e)))

\* line l is pending and unmasked with a pend() of its primitive not served
Owed(l) == enabled[l] /\ unserved[l] > 0
\* the handler of line l has just been entered: on_interrupt is invoked
Entered(l) == frame[l].op = "on_interrupt" /\ frame[l].pc = "ref"
\* no line more urgent than l is pending or has its handler in progress
Quiet(l) == \A m \in Lines : Urgency(m) > Urgency(l) => (~pending[m] /\ ~active[m])

\* C15 (as stated): once the line is unmasked, every pend() on the
\* executor's primitive is eventually followed by an invocation of
\* on_interrupt by the handler of the line that begins after it, and that
\* invocation begins its poll pass, given only that every handler that runs
\* eventually finishes.
C15_PendEventuallyPolled ==
    \A l \in Lines :
        /\ Owed(l) ~> (unserved[l] = 0 /\ Entered(l))
        /\ Entered(l) ~> (frame[l].op = "on_interrupt" /\ frame[l].pc = "polling")

\* C15 (amended): the same, for a line that is again and again free of more
\* urgent requests and handlers: its pend() is then not lost, also when made
\* during a pass of its own handler; the handler runs again after the pass.
C15_PendPolledUnlessStarved ==
    \A l \in Lines :
        []<>Quiet(l) =>
            /\ Owed(l) ~> (unserved[l] = 0 /\ Entered(l))
            /\ Entered(l) ~> (frame[l].op = "on_interrupt" /\ frame[l].pc = "polling")

\* a pend() made on line 1 during a pass of its own handler waits while the
\* more urgent handler of line 2, which preempted the pass, polls
C15_Witness ==
    /\ frame[1].op = "on_interrupt" /\ frame[1].pc = "polling"
    /\ enabled[1] /\ pending[1] /\ unserved[1] >= 1
    /\ frame[2].op = "on_interrupt" /\ frame[2].pc = "polling"

\* C16: preemption ordering.  With two executors started on lines of
\* different priority, a poll pass of the less urgent one takes its next step
\* only when no pend() on the unmasked, more urgent line is unserved and the
\* handler of that line is not in progress: a wake pended for the more urgent
\* executor during the pass is polled, to the end of that pass, before the
\* less urgent pass resumes.
C16_HighPassBeforeLowResumes ==
    [][\A lo \in Lines, hi \in Lines :
          (/\ Urgency(hi) > Urgency(lo)
           /\ frame[lo].op = "on_interrupt" /\ frame[lo].pc = "polling"
           /\ frame'[lo] # frame[lo])
             => /\ ~active[hi]
                /\ enabled[hi] => (unserved[hi] = 0 /\ ~pending[hi])]_vars

\* both executors started; the pass of the less urgent one is preempted by
\* the handler of the more urgent line, which serves the pend and polls
C16_Witness ==
    /\ startOk[1] = 1 /\ startOk[2] = 1 /\ Urgency(2) > Urgency(1)
    /\ PollsInProgress(1) = {1} /\ PollsInProgress(2) = {2}
    /\ Running = 2 /\ unserved[2] = 0 /\ ~pending[2]

\* the tasks init spawned
Spawned == {t \in Tasks : tstate[t] # "unspawned"}

\* C17: in the thread-mode scenario the task is polled a second time, after
\* its wake, and completes; the loop leaves the wait state only on a set
\* event register; and from some point on the loop stays in the wait state
\* for ever, the task done and nothing queued.
C17_ScenarioEndsAsleep ==
    /\ [](\A t \in Tasks : tstate[t] = "done" => begun >= 2)
    /\ [][(tpc = "wait" /\ tpc' # "wait") => event]_vars
    /\ <>[](/\ tpc = "wait" /\ ~event /\ runq = {}
            /\ Cardinality(Spawned) = 1
            /\ \A t \in Spawned : tstate[t] = "done")

\* the task is done after its second poll and the loop sleeps
C17_Witness ==
    /\ tpc = "wait" /\ ~event /\ runq = {}
    /\ \E t \in Tasks : Spawned = {t} /\ tstate[t] = "done"
    /\ begun = 2 /\ passes = 2 /\ waits = 2

\* C18: the wake primitive of an InterruptExecutor is fixed at construction
\* and matches the armed line.  The primitive of a constructed core names a
\* line; a start past its unmask, or returned, has unmasked exactly that
\* line, the one it was passed; every unmasked line is the line of the
\* primitive of a constructed core; and no step changes the primitive of a
\* constructed core.
C18_PenderIsArmedLine ==
    /\ [](\A e \in Execs :
             /\ executor[e].init => executor[e].pender \in Lines
             /\ startOk[e] >= 1 => (executor[e].init /\ enabled[executor[e].pender])
             /\ \A c \in Ctx :
                   (frame[c].op = "start" /\ frame[c].e = e /\ frame[c].pc = "ret")
                       => (executor[e].pender = frame[c].irq /\ enabled[frame[c].irq]))
    /\ [](\A l \in Lines :
             enabled[l] => \E e \in Execs : executor[e].init /\ executor[e].pender = l)
    /\ [][\A e \in Execs :
             executor[e].init
                 => (executor'[e].init /\ executor'[e].pender = executor[e].pender)]_vars

\* both executors started, each pends the line it was started on; a later
\* start of one of them has panicked and a pend() has been made since
C18_Witness ==
    /\ \A e \in Execs : startOk[e] = 1 /\ executor[e].pender = IrqOf(e)
    /\ \E e \in Execs : /\ startPanics[e] >= 1
                        /\ unserved[executor[e].pender] >= 1
                        /\ pending[executor[e].pender]

\* C19: a start call that fails as a duplicate changes nothing: on the step
\* on which a call of start panics, the started flag is set before and
\* after, and the storage of every executor, the wake primitive in it, the
\* mask bits and the pending bits are as they were.
C19_FailedStartChangesNothing ==
    [][\A e \in Execs :
          startPanics'[e] > startPanics[e]
              => /\ started[e] /\ started' = started
                 /\ executor' = executor
                 /\ enabled' = enabled
                 /\ pending' = pending /\ active' = active
                 /\ issued' = issued /\ startOk' = startOk]_vars

\* a duplicate start has panicked on a started executor; the core is as the
\* first start constructed it and the other line is still masked
C19_Witness ==
    \E e \in Execs :
        /\ startOk[e] = 1 /\ startPanics[e] >= 1 /\ started[e]
        /\ executor[e] = raw_Executor_new(InterruptPender(IrqOf(e)))
        /\ \A l \in Lines \ {IrqOf(e)} : ~enabled[l]
        /\ \A d \in Execs \ {e} : startCalls[d] = 0

====
